---- MODULE Spec2Model ----
(***************************************************************************)
(* The in-memory task store of src/hooks/useTasks.ts (the useTasks hook)   *)
(* together with the metric and ranking functions of src/utils/logic.ts.   *)
(*                                                                         *)
(* Encoding of values                                                      *)
(*   - ids are positive integers; String.localeCompare on ids is the       *)
(*     integer order.  crypto.randomUUID() yields the ids above UuidBase.  *)
(*   - timestamps are whole days since the epoch (toISOString of a Date;   *)
(*     ISO strings of one format compare lexicographically as the dates    *)
(*     compare).  A missing timestamp (JS undefined) is `undefined`.       *)
(*   - roi is kept in hundredths (computeROI rounds to two decimals); a    *)
(*     null roi is `null`.  Other fractional metrics are exact fractions   *)
(*     <<numerator, denominator>>.                                         *)
(*   - `Task | null` and `string | null` are `null` or a one-element       *)
(*     sequence holding the value.                                         *)
(*   - each task record carries two history fields that no code reads:     *)
(*     everDone (its status has been Done at some point) and viaAdd (it    *)
(*     was created by addTask and no patch carried completedAt since).     *)
(*   - computeROI's typeof and Number.isFinite tests are always passed:    *)
(*     revenue and timeTaken are integers here.                            *)
(*                                                                         *)
(* Every operation of the hook is one step: the handler, the state         *)
(* updaters it queues and the render that follows, in which the useMemo    *)
(* values are recomputed.  React drops the updates of a component that is  *)
(* no longer mounted, so the operations are guarded by isMounted.          *)
(*                                                                         *)
(* The exported functions of logic.ts that the hook does not call          *)
(* (sortTasks on arbitrary arrays, computeThroughputByWeek,                *)
(* computeForecast, computeVelocityByPriority) have a specification each:  *)
(* its initial states are the arguments, its one step is the call, which   *)
(* leaves the argument in arg and the returned value in result.  Strings   *)
(* that are compared character by character are sequences of UTF-16 code   *)
(* units.                                                                  *)
(***************************************************************************)
EXTENDS Integers, Sequences, FiniteSets, TLC

\* ---- bounds of the model ----
MaxTasks == 2      \* addTask is not called once collection and buffer hold this many tasks
MaxNow == 1        \* number of times the clock advances
SeedCount == 1     \* size of the generated batch (the hook asks for 50)
MaxCalls == 3
MaxArgLen == 3     \* longest array passed to a function of logic.ts
MaxHorizon == 2    \* largest horizonWeeks passed to computeForecast      \* number of calls the view makes of the five operations of the store

\* ---- value encodings ----
undefined == 0
null == <<>>
StartDay == 10     \* Date.now() when the hook is first rendered
UuidBase == 100

Some(v) == <<v>>

IdsOf(ts) == {ts[i].id : i \in 1..Len(ts)}

HeldIds(ts, ld) == IdsOf(ts) \cup IdsOf(ld)

MapSeq(F(_), s) == [i \in 1..Len(s) |-> F(s[i])]

Has(r, f) == f \in DOMAIN r

\* value ?? fallback on a field that holds an id or a timestamp
Nullish(r, f) == ~Has(r, f) \/ r[f] = undefined

\* crypto.randomUUID(): the k-th identifier not held by any record in `used`
RECURSIVE randomUUID(_, _)
randomUUID(used, k) ==
  LET least == CHOOSE u \in {UuidBase + j : j \in 1..(Cardinality(used) + 1)} :
                 /\ u \notin used
                 /\ \A v \in {UuidBase + j : j \in 1..(Cardinality(used) + 1)} :
                      v \notin used => u <= v
  IN IF k <= 1 THEN least ELSE randomUUID(used \cup {least}, k - 1)

\* ---- src/utils/logic.ts: metric functions ----

\* Math.round(x) for x = num / den, den > 0: floor(x + 1/2)
MathRound(num, den) == (2 * num + den) \div (2 * den)

computeROI(revenue, timeTaken) ==
  IF timeTaken <= 0 THEN null
  ELSE Some(MathRound(100 * revenue, timeTaken))

computePriorityWeight(priority) ==
  CASE priority = "High" -> 3
    [] priority = "Medium" -> 2
    [] OTHER -> 1

withDerived(task) ==
  [id |-> task.id, title |-> task.title, revenue |-> task.revenue,
   timeTaken |-> task.timeTaken, priority |-> task.priority,
   status |-> task.status, notes |-> task.notes,
   createdAt |-> task.createdAt, completedAt |-> task.completedAt,
   everDone |-> task.everDone, viaAdd |-> task.viaAdd,
   roi |-> computeROI(task.revenue, task.timeTaken),
   priorityWeight |-> computePriorityWeight(task.priority)]

\* String.localeCompare on titles: the sign of the comparison
TitleRank(title) ==
  CASE title = "" -> 0
    [] title = "A" -> 1
    [] title = "B" -> 2
    [] title = "C" -> 3
    [] OTHER -> 4

Sign(n) == IF n < 0 THEN -1 ELSE IF n > 0 THEN 1 ELSE 0

\* the comparator without its last key: tasks that tie on every other key
\* compare equal
compareNoIdTieBreak(a, b) ==
  IF a.roi # b.roi
    THEN IF a.roi = null THEN 1
         ELSE IF b.roi = null THEN -1
         ELSE Sign(b.roi[1] - a.roi[1])
  ELSE IF b.priorityWeight # a.priorityWeight
    THEN Sign(b.priorityWeight - a.priorityWeight)
  ELSE IF a.createdAt # undefined /\ b.createdAt # undefined
          /\ b.createdAt # a.createdAt
    THEN Sign(b.createdAt - a.createdAt)
  ELSE Sign(TitleRank(a.title) - TitleRank(b.title))

\* the comparator of sortTasks: negative when a goes before b
compare(a, b) ==
  IF a.roi # b.roi
    THEN IF a.roi = null THEN 1                  \* bROI - aROI = +Infinity
         ELSE IF b.roi = null THEN -1            \* bROI - aROI = -Infinity
         ELSE Sign(b.roi[1] - a.roi[1])
  ELSE IF b.priorityWeight # a.priorityWeight
    THEN Sign(b.priorityWeight - a.priorityWeight)
  ELSE IF a.createdAt # undefined /\ b.createdAt # undefined
          /\ b.createdAt # a.createdAt
    THEN Sign(b.createdAt - a.createdAt)
  ELSE IF TitleRank(a.title) # TitleRank(b.title)
    THEN Sign(TitleRank(a.title) - TitleRank(b.title))
  ELSE Sign(a.id - b.id)

\* Array.prototype.sort is stable: x goes before the first element that
\* compares greater than it
RECURSIVE InsertSorted(_, _)
InsertSorted(x, s) ==
  IF s = <<>> THEN <<x>>
  ELSE IF compare(x, Head(s)) < 0 THEN <<x>> \o s
  ELSE <<Head(s)>> \o InsertSorted(x, Tail(s))

RECURSIVE SortInto(_, _)
SortInto(acc, rest) ==
  IF rest = <<>> THEN acc
  ELSE SortInto(InsertSorted(Head(rest), acc), Tail(rest))

sortTasks(ts) == SortInto(<<>>, ts)

RECURSIVE SumSeq(_)
SumSeq(s) == IF s = <<>> THEN 0 ELSE Head(s) + SumSeq(Tail(s))

IsDone(t) == t.status = "Done"

HasROI(t) == computeROI(t.revenue, t.timeTaken) # null

RevenueOf(t) == t.revenue

TimeTakenOf(t) == t.timeTaken

RoiOf(t) == computeROI(t.revenue, t.timeTaken)[1]

computeTotalRevenue(ts) == SumSeq(MapSeq(RevenueOf, SelectSeq(ts, IsDone)))

computeTotalTimeTaken(ts) == SumSeq(MapSeq(TimeTakenOf, ts))

computeTimeEfficiency(ts) ==
  IF Len(ts) = 0 THEN <<0, 1>>
  ELSE <<Len(SelectSeq(ts, IsDone)) * 100, Len(ts)>>

computeRevenuePerHour(ts) ==
  LET revenue == computeTotalRevenue(ts)
      time == computeTotalTimeTaken(ts)
  IN IF time > 0 THEN <<revenue, time>> ELSE <<0, 1>>

\* the mean of the non-null rois; rois are in hundredths
computeAverageROI(ts) ==
  LET rois == MapSeq(RoiOf, SelectSeq(ts, HasROI))
  IN IF Len(rois) = 0 THEN <<0, 1>>
     ELSE <<SumSeq(rois), 100 * Len(rois)>>

\* avgROI is a fraction with a positive denominator
computePerformanceGrade(avgROI) ==
  IF avgROI[1] > 500 * avgROI[2] THEN "Excellent"
  ELSE IF avgROI[1] >= 200 * avgROI[2] THEN "Good"
  ELSE "Needs Improvement"

\* ---- src/hooks/useTasks.ts ----

INITIAL_METRICS ==
  [totalRevenue |-> 0, totalTimeTaken |-> 0, timeEfficiencyPct |-> <<0, 1>>,
   revenuePerHour |-> <<0, 1>>, averageROI |-> <<0, 1>>,
   performanceGrade |-> "Needs Improvement"]

VARIABLES
  tasks,          \* useState<Task[]>
  loading,        \* useState(true)
  error,          \* useState<string | null>
  lastDeleted,    \* useState<Task | null>
  fetchedRef,     \* useRef(false)
  derivedSorted,  \* useMemo over [tasks]
  metrics,        \* useMemo over [tasks]
  isMounted,      \* the flag of the load effect, cleared by its cleanup
  loadPc,         \* position of load(): "fetching" or "settled"
  now,            \* the clock read by Date.now() and new Date()
  calls,          \* history: the number of calls of the store's operations so far
  lastCall,       \* history: the operation that produced this state
  beforeDelete,   \* history: the collection just before the latest call, when that call was deleteTask
  arg,            \* the argument of a call of one of the functions of logic.ts
  result,         \* what that call returned
  returned        \* whether that call has returned

storeVars == <<tasks, loading, error, lastDeleted, fetchedRef, derivedSorted,
               metrics, isMounted, loadPc, now, calls, lastCall, beforeDelete>>

fnVars == <<arg, result, returned>>

vars == <<storeVars, fnVars>>

\* useMemo with an empty dependency list
useMemoNoDeps(cached, computed, depsChanged) == cached

\* useMemo(compute, deps): the cached value unless a dependency changed
useMemo(cached, computed, depsChanged) ==
  IF depsChanged THEN computed ELSE cached

derivedSortedOf(ts) == sortTasks(MapSeq(withDerived, ts))

metricsOf(ts) ==
  IF Len(ts) = 0 THEN INITIAL_METRICS
  ELSE [totalRevenue |-> computeTotalRevenue(ts),
        totalTimeTaken |-> SumSeq(MapSeq(TimeTakenOf, ts)),
        timeEfficiencyPct |-> computeTimeEfficiency(ts),
        revenuePerHour |-> computeRevenuePerHour(ts),
        averageROI |-> computeAverageROI(ts),
        performanceGrade |-> computePerformanceGrade(computeAverageROI(ts))]

\* the render that follows a call of setTasks with a new array
Rerender ==
  /\ derivedSorted' = useMemo(derivedSorted, derivedSortedOf(tasks'), TRUE)
  /\ metrics' = useMemo(metrics, metricsOf(tasks'), TRUE)

\* a render in which the tasks array is the one of the previous render
RerenderSameTasks ==
  /\ derivedSorted' = useMemo(derivedSorted, derivedSortedOf(tasks'), FALSE)
  /\ metrics' = useMemo(metrics, metricsOf(tasks'), FALSE)

StoreInit ==
  /\ tasks = <<>>
  /\ loading = TRUE
  /\ error = null
  /\ lastDeleted = null
  /\ fetchedRef = FALSE
  /\ derivedSorted = <<>>
  /\ metrics = INITIAL_METRICS
  /\ isMounted = TRUE
  /\ loadPc = "fetching"
  /\ now = StartDay
  /\ calls = 0
  /\ lastCall = "mount"
  /\ beforeDelete = <<>>

\* the hook is mounted and no function of logic.ts is being called on its own
Init ==
  /\ StoreInit
  /\ arg = <<>>
  /\ result = <<>>
  /\ returned = FALSE

\* the arguments the view passes to addTask
AddInputs ==
  { [title |-> "A", revenue |-> 100, timeTaken |-> 0, priority |-> "High",
     status |-> "Todo", notes |-> "", createdAt |-> 1, completedAt |-> 5],
    [id |-> 1, title |-> "B", revenue |-> 300, timeTaken |-> 2, priority |-> "Low",
     status |-> "Done", notes |-> "", createdAt |-> 1, completedAt |-> undefined] }

\* addTask with the spread last, { id, timeTaken, createdAt, completedAt,
\* ...task }: the createdAt of the argument wins over the current time
addTaskSpreadLast(task) ==
  /\ isMounted
  /\ calls < MaxCalls
  /\ calls' = calls + 1
  /\ Len(tasks) + Len(lastDeleted) < MaxTasks
  /\ LET id == IF Nullish(task, "id") THEN randomUUID(HeldIds(tasks, lastDeleted), 1)
               ELSE task.id
         timeTaken == IF task.timeTaken <= 0 THEN 1 ELSE task.timeTaken
         createdAt == IF Has(task, "createdAt") THEN task.createdAt ELSE now
         status == task.status
         completedAt == IF Has(task, "completedAt") THEN task.completedAt
                        ELSE IF status = "Done" THEN createdAt ELSE undefined
     IN tasks' = Append(tasks,
                   [id |-> id, title |-> task.title, revenue |-> task.revenue,
                    timeTaken |-> timeTaken, priority |-> task.priority,
                    status |-> task.status, notes |-> task.notes,
                    createdAt |-> createdAt, completedAt |-> completedAt,
                    everDone |-> (status = "Done"), viaAdd |-> TRUE])
  /\ Rerender
  /\ lastCall' = "addTask"
  /\ beforeDelete' = <<>>
  /\ UNCHANGED fnVars
  /\ UNCHANGED <<loading, error, lastDeleted, fetchedRef, isMounted, loadPc, now>>

addTask(task) ==
  /\ isMounted
  /\ calls < MaxCalls
  /\ calls' = calls + 1
  /\ Len(tasks) + Len(lastDeleted) < MaxTasks
  /\ LET id == IF Nullish(task, "id") THEN randomUUID(HeldIds(tasks, lastDeleted), 1)
               ELSE task.id
         timeTaken == IF task.timeTaken <= 0 THEN 1 ELSE task.timeTaken
         createdAt == now
         status == task.status
         completedAt == IF status = "Done" THEN createdAt ELSE undefined
     IN tasks' = Append(tasks,
                   [id |-> id, title |-> task.title, revenue |-> task.revenue,
                    timeTaken |-> timeTaken, priority |-> task.priority,
                    status |-> task.status, notes |-> task.notes,
                    createdAt |-> createdAt, completedAt |-> completedAt,
                    everDone |-> (status = "Done"), viaAdd |-> TRUE])
  /\ Rerender
  /\ lastCall' = "addTask"
  /\ beforeDelete' = <<>>
  /\ UNCHANGED fnVars
  /\ UNCHANGED <<loading, error, lastDeleted, fetchedRef, isMounted, loadPc, now>>

\* { ...t, ...patch }
Merge(t, patch) == [f \in DOMAIN t |-> IF Has(patch, f) THEN patch[f] ELSE t[f]]

\* updateOne with the test of merged.completedAt left out of the condition
updateOneRestamp(t, id, patch, at) ==
  IF t.id # id THEN t
  ELSE LET merged == Merge(t, patch)
           stamped == IF t.status # "Done" /\ merged.status = "Done"
                      THEN [merged EXCEPT !.completedAt = at]
                      ELSE merged
       IN [stamped EXCEPT !.everDone = t.everDone \/ merged.status = "Done",
                          !.viaAdd = t.viaAdd /\ ~Has(patch, "completedAt")]

\* the callback of the first map of updateTask
updateOne(t, id, patch, at) ==
  IF t.id # id THEN t
  ELSE LET merged == Merge(t, patch)
           stamped == IF t.status # "Done" /\ merged.status = "Done"
                         /\ merged.completedAt = undefined
                      THEN [merged EXCEPT !.completedAt = at]
                      ELSE merged
       IN [stamped EXCEPT !.everDone = t.everDone \/ merged.status = "Done",
                          !.viaAdd = t.viaAdd /\ ~Has(patch, "completedAt")]

\* clampOne with the test of t.id left out of the condition
clampOneAnyId(t, id, patch) ==
  IF (IF Has(patch, "timeTaken") THEN patch.timeTaken ELSE t.timeTaken) <= 0
  THEN [t EXCEPT !.timeTaken = 1]
  ELSE t

\* the callback of the second map of updateTask; t is an element of `next`
clampOne(t, id, patch) ==
  IF t.id = id
     /\ (IF Has(patch, "timeTaken") THEN patch.timeTaken ELSE t.timeTaken) <= 0
  THEN [t EXCEPT !.timeTaken = 1]
  ELSE t

\* the patches the view passes to updateTask
Patches ==
  { [status |-> "Done"],
    [status |-> "Todo"],
    [timeTaken |-> 0],
    [id |-> 2, timeTaken |-> 0],
    [completedAt |-> 3] }

\* the ids the view passes to updateTask and deleteTask
ArgIds == {1, 2} \cup IdsOf(tasks)

updateTask(id, patch) ==
  /\ isMounted
  /\ calls < MaxCalls
  /\ calls' = calls + 1
  /\ LET next == MapSeq(LAMBDA t : updateOne(t, id, patch, now), tasks)
     IN tasks' = MapSeq(LAMBDA t : clampOne(t, id, patch), next)
  /\ Rerender
  /\ lastCall' = IF id \in IdsOf(tasks) THEN "updateTask" ELSE "updateTask miss"
  /\ beforeDelete' = <<>>
  /\ UNCHANGED fnVars
  /\ UNCHANGED <<loading, error, lastDeleted, fetchedRef, isMounted, loadPc, now>>

\* prev.find(t => t.id === id) || null
find(ts, id) ==
  LET hits == SelectSeq(ts, LAMBDA t : t.id = id)
  IN IF hits = <<>> THEN null ELSE Some(Head(hits))

deleteTask(id) ==
  /\ isMounted
  /\ calls < MaxCalls
  /\ calls' = calls + 1
  /\ lastDeleted' = find(tasks, id)
  /\ tasks' = SelectSeq(tasks, LAMBDA t : t.id # id)
  /\ Rerender
  /\ lastCall' = IF id \in IdsOf(tasks) THEN "deleteTask" ELSE "deleteTask miss"
  /\ beforeDelete' = tasks
  /\ UNCHANGED fnVars
  /\ UNCHANGED <<loading, error, fetchedRef, isMounted, loadPc, now>>

undoDelete ==
  /\ isMounted
  /\ calls < MaxCalls
  /\ calls' = calls + 1
  /\ IF lastDeleted = null
       THEN /\ UNCHANGED <<tasks, lastDeleted>>
            /\ RerenderSameTasks
            /\ lastCall' = "undoDelete noop"
       ELSE /\ tasks' = Append(tasks, lastDeleted[1])
            /\ lastDeleted' = null
            /\ Rerender
            /\ lastCall' = "undoDelete"
  /\ beforeDelete' = <<>>
  /\ UNCHANGED fnVars
  /\ UNCHANGED <<loading, error, fetchedRef, isMounted, loadPc, now>>

\* the undoDelete callback of one render invoked twice before the next
\* render: both invocations read the lastDeleted of that render, so both pass
\* the test and both queue the updater that appends it
undoDeleteTwice ==
  /\ isMounted
  /\ calls + 1 < MaxCalls
  /\ calls' = calls + 2
  /\ lastDeleted # null
  /\ tasks' = Append(Append(tasks, lastDeleted[1]), lastDeleted[1])
  /\ lastDeleted' = null
  /\ Rerender
  /\ lastCall' = "undoDelete twice"
  /\ beforeDelete' = <<>>
  /\ UNCHANGED fnVars
  /\ UNCHANGED <<loading, error, fetchedRef, isMounted, loadPc, now>>

dismissLastDeleted ==
  /\ isMounted
  /\ calls < MaxCalls
  /\ calls' = calls + 1
  /\ lastDeleted' = null
  /\ RerenderSameTasks
  /\ lastCall' = "dismissLastDeleted"
  /\ beforeDelete' = <<>>
  /\ UNCHANGED fnVars
  /\ UNCHANGED <<tasks, loading, error, fetchedRef, isMounted, loadPc, now>>

\* ---- the startup load ----

\* the bodies /tasks.json can have: an array of loosely typed records, or
\* something that is no array
RawA ==
  [title |-> "A", revenue |-> 100, timeTaken |-> 0,
   priority |-> "High", status |-> "Done", notes |-> ""]

RawB ==
  [id |-> 1, title |-> "B", timeTaken |-> 4, priority |-> "Medium",
   status |-> "Todo", notes |-> "", createdAt |-> 3, completedAt |-> 5]

Bodies ==
  { [isArray |-> TRUE, items |-> <<RawA>>],
    [isArray |-> TRUE, items |-> <<RawB>>],
    [isArray |-> TRUE, items |-> <<>>],
    [isArray |-> FALSE, items |-> <<>>] }

\* the messages of the errors load() can catch: fetch rejects, the response
\* is not OK, res.json() throws, or the error has no message
Failures ==
  { "Failed to fetch", "Failed to load tasks.json (404)" }

\* the callback of the map of normalizeTasks; i is idx + 1
normalizeOne(t, i, at, id) ==
  LET created == IF Nullish(t, "createdAt") THEN at - i ELSE t.createdAt
      completed == IF ~Nullish(t, "completedAt") THEN t.completedAt
                   ELSE IF t.status = "Done" THEN created + 1 ELSE undefined
  IN [id |-> IF Nullish(t, "id") THEN id ELSE t.id,
      title |-> IF Has(t, "title") THEN t.title ELSE "",
      revenue |-> IF Has(t, "revenue") THEN t.revenue ELSE 0,
      timeTaken |-> IF Has(t, "timeTaken") /\ t.timeTaken > 0 THEN t.timeTaken ELSE 1,
      priority |-> t.priority,
      status |-> t.status,
      notes |-> t.notes,
      createdAt |-> created,
      completedAt |-> completed,
      everDone |-> (t.status = "Done"), viaAdd |-> FALSE]

normalizeTasks(input, at, used) ==
  LET arr == IF input.isArray THEN input.items ELSE <<>>
  IN [i \in 1..Len(arr) |-> normalizeOne(arr[i], i, at, randomUUID(used, i))]

\* generateSalesTasks of src/utils/seed.ts: count records that satisfy the
\* Task invariants
SeedBase == 200

generateSalesTasks(count, at) ==
  [i \in 1..count |->
     [id |-> SeedBase + i, title |-> "C", revenue |-> 200 * i, timeTaken |-> i,
      priority |-> IF i % 2 = 1 THEN "Medium" ELSE "Low",
      status |-> IF i % 2 = 1 THEN "Done" ELSE "In Progress", notes |-> "",
      createdAt |-> at - i,
      completedAt |-> IF i % 2 = 1 THEN at - i + 1 ELSE undefined,
      everDone |-> (i % 2 = 1), viaAdd |-> FALSE]]

\* load(): fetch and res.json() succeed
loadOk(data) ==
  /\ loadPc = "fetching"
  /\ isMounted
  /\ LET normalized == normalizeTasks(data, now, HeldIds(tasks, lastDeleted))
         finalData == IF Len(normalized) > 0 THEN normalized
                      ELSE generateSalesTasks(SeedCount, now)
     IN tasks' = finalData
  /\ Rerender
  /\ loading' = FALSE
  /\ fetchedRef' = TRUE
  /\ loadPc' = "settled"
  /\ lastCall' = "load ok"
  /\ beforeDelete' = <<>>
  /\ UNCHANGED fnVars
  /\ UNCHANGED <<calls, error, lastDeleted, isMounted, now>>

\* load() with setLoading(false) at the end of the try block instead of in
\* finally: a failure leaves loading as it was
loadFailKeepsLoading(message) ==
  /\ loadPc = "fetching"
  /\ isMounted
  /\ error' = Some(message)
  /\ RerenderSameTasks
  /\ fetchedRef' = TRUE
  /\ loadPc' = "settled"
  /\ lastCall' = "load failed"
  /\ beforeDelete' = <<>>
  /\ UNCHANGED fnVars
  /\ UNCHANGED <<calls, tasks, loading, lastDeleted, isMounted, now>>

\* load(): the try block throws
loadFail(message) ==
  /\ loadPc = "fetching"
  /\ isMounted
  /\ error' = Some(message)
  /\ RerenderSameTasks
  /\ loading' = FALSE
  /\ fetchedRef' = TRUE
  /\ loadPc' = "settled"
  /\ lastCall' = "load failed"
  /\ beforeDelete' = <<>>
  /\ UNCHANGED fnVars
  /\ UNCHANGED <<calls, tasks, lastDeleted, isMounted, now>>

\* load() settles after the cleanup, with a finally block that does not test
\* isMounted
loadUnmountedFinally ==
  /\ loadPc = "fetching"
  /\ ~isMounted
  /\ loading' = FALSE
  /\ fetchedRef' = TRUE
  /\ loadPc' = "settled"
  /\ lastCall' = "load unmounted"
  /\ beforeDelete' = <<>>
  /\ UNCHANGED fnVars
  /\ UNCHANGED <<calls, tasks, error, lastDeleted, derivedSorted, metrics, isMounted, now>>

\* load() settles, either way, after the cleanup of the effect has run
loadUnmounted ==
  /\ loadPc = "fetching"
  /\ ~isMounted
  /\ loadPc' = "settled"
  /\ lastCall' = "load unmounted"
  /\ beforeDelete' = <<>>
  /\ UNCHANGED fnVars
  /\ UNCHANGED <<calls, tasks, loading, error, lastDeleted, fetchedRef, derivedSorted,
                 metrics, isMounted, now>>

\* the cleanup of the load effect; once load() has settled no code of the
\* hook reads isMounted again
unmount ==
  /\ isMounted
  /\ loadPc = "fetching"
  /\ isMounted' = FALSE
  /\ lastCall' = "unmount"
  /\ beforeDelete' = <<>>
  /\ UNCHANGED fnVars
  /\ UNCHANGED <<calls, tasks, loading, error, lastDeleted, fetchedRef, derivedSorted,
                 metrics, loadPc, now>>

Tick ==
  /\ now < StartDay + MaxNow
  /\ now' = now + 1
  /\ lastCall' = "tick"
  /\ beforeDelete' = <<>>
  /\ UNCHANGED fnVars
  /\ UNCHANGED <<calls, tasks, loading, error, lastDeleted, fetchedRef, derivedSorted,
                 metrics, isMounted, loadPc>>

Next ==
  \/ \E task \in AddInputs : addTask(task)
  \/ \E id \in ArgIds, patch \in Patches : updateTask(id, patch)
  \/ \E id \in ArgIds : deleteTask(id)
  \/ undoDelete
  \/ undoDeleteTwice
  \/ dismissLastDeleted
  \/ \E data \in Bodies : loadOk(data)
  \/ \E message \in Failures : loadFail(message)
  \/ loadUnmounted
  \/ unmount
  \/ Tick

Spec == Init /\ [][Next]_vars

\* the promise of load() settles, by either path, mounted or not
loadSettles ==
  \/ loadUnmounted
  \/ \E message \in Failures : loadFail(message)
  \/ \E data \in Bodies : loadOk(data)

\* fetch resolves or rejects and the event loop then runs the rest of load()
LiveSpec == Spec /\ WF_vars(loadSettles)

\* ---- src/utils/logic.ts: the functions called on their own ----

\* the arrays of at most n elements of S
SeqsUpTo(S, n) == UNION {[1..k -> S] : k \in 0..n}

SortBase ==
  [id |-> 1, title |-> "A", revenue |-> 100, timeTaken |-> 1, priority |-> "High",
   status |-> "Todo", notes |-> "", createdAt |-> StartDay, completedAt |-> undefined,
   everDone |-> FALSE, viaAdd |-> FALSE]

\* derived tasks that differ in one sort key each: id, title, createdAt,
\* priority, a null roi (twice) and a higher roi
SortPool ==
  {withDerived(t) : t \in
     {SortBase,
      [SortBase EXCEPT !.id = 2],
      [SortBase EXCEPT !.id = 3, !.title = "B"],
      [SortBase EXCEPT !.id = 4, !.createdAt = StartDay + 1],
      [SortBase EXCEPT !.id = 5, !.priority = "Low"],
      [SortBase EXCEPT !.id = 6, !.timeTaken = 0],
      [SortBase EXCEPT !.id = 7, !.revenue = 300],
      [SortBase EXCEPT !.id = 8, !.timeTaken = 0, !.priority = "Low"]}}

\* tasks.sort(...) without the copy: the caller's array is reordered
sortTasksCallInPlace ==
  /\ ~returned
  /\ arg' = sortTasks(arg)
  /\ result' = arg'
  /\ returned' = TRUE
  /\ UNCHANGED storeVars

\* sortTasks(tasks): [...tasks].sort(...) sorts a copy and returns it
sortTasksCall ==
  /\ ~returned
  /\ result' = sortTasks(arg)
  /\ arg' = arg
  /\ returned' = TRUE
  /\ UNCHANGED storeVars

SortInit ==
  /\ StoreInit
  /\ arg \in SeqsUpTo(SortPool, MaxArgLen)
  /\ result = <<>>
  /\ returned = FALSE

SortNext == sortTasksCall

SortSpec == SortInit /\ [][SortNext]_vars

\* ---- computeThroughputByWeek ----
\* Date values are whole days since 1970-01-01, a Thursday.

\* the leap days of the years 1..y
LeapDays(y) == y \div 4 - y \div 100 + y \div 400

\* Date.UTC(year, 0, day): day 1 is 1 January; a day past 31 runs on into
\* the following months
DateUTC(year, day) ==
  365 * (year - 1970) + LeapDays(year - 1) - LeapDays(1969) + (day - 1)

getUTCFullYear(d) ==
  CHOOSE y \in (1970 + d \div 366)..(1970 + d \div 365) :
    DateUTC(y, 1) <= d /\ d < DateUTC(y + 1, 1)

\* 0 is Sunday
getUTCDay(d) == (d + 4) % 7

getWeekNumber(d) ==
  LET dayNr == (getUTCDay(d) + 6) % 7
      target == d - dayNr + 3
      firstThursday == DateUTC(getUTCFullYear(target), 4)
      diff == target - firstThursday
  IN 1 + MathRound(diff, 7)

\* the UTF-16 code units of the decimal digits of n >= 0
RECURSIVE Digits(_)
Digits(n) ==
  IF n < 10 THEN <<48 + n>> ELSE Digits(n \div 10) \o <<48 + (n % 10)>>

\* `${d.getUTCFullYear()}-W${getWeekNumber(d)}` as code units: "-" is 45, "W" is 87
weekKey(d) == Digits(getUTCFullYear(d)) \o <<45, 87>> \o Digits(getWeekNumber(d))

\* a.localeCompare(b) on strings of digits, "-" and "W": the first code unit
\* that differs decides, a proper prefix goes first
RECURSIVE localeCompare(_, _)
localeCompare(a, b) ==
  IF a = <<>> /\ b = <<>> THEN 0
  ELSE IF a = <<>> THEN -1
  ELSE IF b = <<>> THEN 1
  ELSE IF Head(a) # Head(b) THEN Sign(Head(a) - Head(b))
  ELSE localeCompare(Tail(a), Tail(b))

\* the keys of the map in the order of sort((a, b) => a[0].localeCompare(b[0]))
RECURSIVE SortKeys(_)
SortKeys(keys) ==
  IF keys = {} THEN <<>>
  ELSE LET first == CHOOSE k \in keys : \A o \in keys : localeCompare(k, o) <= 0
       IN <<first>> \o SortKeys(keys \ {first})

\* the tasks that pass `if (!t.completedAt) return`
Completed(ts) == SelectSeq(ts, LAMBDA t : t.completedAt # undefined)

computeThroughputByWeek(ts) ==
  LET done == Completed(ts)
      keys == {weekKey(done[i].completedAt) : i \in 1..Len(done)}
      weeks == SortKeys(keys)
      InWeek(k) == SelectSeq(done, LAMBDA t : weekKey(t.completedAt) = k)
  IN [i \in 1..Len(weeks) |->
        [week |-> weeks[i],
         count |-> Len(InWeek(weeks[i])),
         revenue |-> SumSeq(MapSeq(RevenueOf, InWeek(weeks[i])))]]

\* tasks completed on 1 January 2024 (a Monday, week 1), 8 January 2024
\* (week 2), 4 March 2024 (week 10), 30 December 2024 (a Monday, week 1 of
\* 2025) and 1 January 2025, and a task that is not completed
ThroughputPool ==
  {[SortBase EXCEPT !.status = "Done", !.completedAt = d] :
     d \in {DateUTC(2024, 1), DateUTC(2024, 8), DateUTC(2024, 64),
            DateUTC(2024, 365), DateUTC(2025, 1)}}
  \cup {SortBase}

computeThroughputByWeekCall ==
  /\ ~returned
  /\ result' = computeThroughputByWeek(arg)
  /\ arg' = arg
  /\ returned' = TRUE
  /\ UNCHANGED storeVars

ThroughputInit ==
  /\ StoreInit
  /\ arg \in SeqsUpTo(ThroughputPool, MaxArgLen)
  /\ result = <<>>
  /\ returned = FALSE

ThroughputNext == computeThroughputByWeekCall

ThroughputSpec == ThroughputInit /\ [][ThroughputNext]_vars

\* ---- computeForecast ----
\* Numbers that need not be whole are exact fractions <<numerator,
\* denominator>> in lowest terms with a positive denominator; a zero
\* denominator stands for the Infinity or NaN of a division by zero.

RECURSIVE GCD(_, _)
GCD(a, b) == IF b = 0 THEN a ELSE GCD(b, a % b)

Abs(n) == IF n < 0 THEN -n ELSE n

Frac(num, den) ==
  IF den = 0 THEN <<num, 0>>
  ELSE LET g == GCD(Abs(num), Abs(den))
           sgn == IF den < 0 THEN -1 ELSE 1
       IN <<(sgn * num) \div g, (sgn * den) \div g>>

Whole(n) == <<n, 1>>

FracAdd(a, b) == Frac(a[1] * b[2] + b[1] * a[2], a[2] * b[2])

FracSub(a, b) == Frac(a[1] * b[2] - b[1] * a[2], a[2] * b[2])

FracMul(a, b) == Frac(a[1] * b[1], a[2] * b[2])

FracDiv(a, b) == Frac(a[1] * b[2], a[2] * b[1])

\* Math.max(0, v)
MathMax0(v) == IF v[1] < 0 THEN Whole(0) ELSE v

\* the index of the i-th forecast week, counted from the last index itself
forecastIdxFromLast(lastIndex, i) == lastIndex + i - 1

\* const idx = lastIndex + i
forecastIdx(lastIndex, i) == lastIndex + i

\* `+${i}` as code units: "+" is 43
forecastWeek(i) == <<43>> \o Digits(i)

computeForecast(weekly, horizonWeeks) ==
  IF Len(weekly) < 2 THEN <<>>
  ELSE
    LET y == [i \in 1..Len(weekly) |-> weekly[i].revenue]
        x == [i \in 1..Len(weekly) |-> i - 1]
        n == Len(x)
        sumX == SumSeq(x)
        sumY == SumSeq(y)
        sumXY == SumSeq([i \in 1..n |-> x[i] * y[i]])
        sumXX == SumSeq([i \in 1..n |-> x[i] * x[i]])
        denominator == IF n * sumXX - sumX * sumX = 0 THEN 1     \* ... || 1
                       ELSE n * sumXX - sumX * sumX
        slope == FracDiv(Whole(n * sumXY - sumX * sumY), Whole(denominator))
        intercept == FracDiv(FracSub(Whole(sumY), FracMul(slope, Whole(sumX))), Whole(n))
        lastIndex == x[Len(x)]
    IN [i \in 1..horizonWeeks |->
          [week |-> forecastWeek(i),
           revenue |-> MathMax0(FracAdd(FracMul(slope, Whole(forecastIdx(lastIndex, i))),
                                        intercept))]]

\* the weekly series of at most MaxArgLen points, as computeThroughputByWeek
\* labels them, without their count
WeeklySeries ==
  {[i \in 1..Len(r) |-> [week |-> weekKey(DateUTC(2024, 7 * i - 6)), revenue |-> r[i]]] :
     r \in SeqsUpTo({0, 100, 200, 300}, MaxArgLen)}

\* the calls computeForecast(weekly) and computeForecast(weekly, horizonWeeks)
ForecastArgs ==
  {[weekly |-> w] : w \in WeeklySeries}
  \cup {[weekly |-> w, horizonWeeks |-> h] : w \in WeeklySeries, h \in 0..MaxHorizon}

\* horizonWeeks = 4 when the caller passes none
horizonWeeksOf(a) == IF Has(a, "horizonWeeks") THEN a.horizonWeeks ELSE 4

computeForecastCall ==
  /\ ~returned
  /\ result' = computeForecast(arg.weekly, horizonWeeksOf(arg))
  /\ arg' = arg
  /\ returned' = TRUE
  /\ UNCHANGED storeVars

ForecastInit ==
  /\ StoreInit
  /\ arg \in ForecastArgs
  /\ result = <<>>
  /\ returned = FALSE

ForecastNext == computeForecastCall

ForecastSpec == ForecastInit /\ [][ForecastNext]_vars

\* ---- computeVelocityByPriority ----

\* timestamps are whole days, so (b - a) / (24 * 3600 * 1000) is b - a
daysBetween(aISO, bISO) ==
  LET days == MathRound(bISO - aISO, 1)
  IN IF days < 0 THEN 0 ELSE days

\* arr.slice().sort((a, b) => a - b)
RECURSIVE InsertNumber(_, _)
InsertNumber(v, s) ==
  IF s = <<>> THEN <<v>>
  ELSE IF v < Head(s) THEN <<v>> \o s
  ELSE <<Head(s)>> \o InsertNumber(v, Tail(s))

RECURSIVE SortNumbers(_)
SortNumbers(s) ==
  IF s = <<>> THEN <<>> ELSE InsertNumber(Head(s), SortNumbers(Tail(s)))

Priorities == {"High", "Medium", "Low"}

\* groups[k]: the days of the completed tasks of priority k, in input order
groupOf(ts, k) ==
  LET picked == SelectSeq(ts, LAMBDA t : t.completedAt # undefined /\ t.priority = k)
  IN [i \in 1..Len(picked) |-> daysBetween(picked[i].createdAt, picked[i].completedAt)]

computeVelocityByPriority(ts) ==
  [k \in Priorities |->
     LET arr == SortNumbers(groupOf(ts, k))
     IN [avgDays |-> IF Len(arr) # 0 THEN Frac(SumSeq(arr), Len(arr)) ELSE Whole(0),
         medianDays |-> IF Len(arr) # 0 THEN arr[(Len(arr) \div 2) + 1] ELSE 0]]

\* High tasks not completed, completed after 1 day, after 3 days and two days
\* before their creation, and a Low task completed after 1 day
VelocityPool ==
  {SortBase,
   [SortBase EXCEPT !.status = "Done", !.completedAt = StartDay + 1],
   [SortBase EXCEPT !.status = "Done", !.completedAt = StartDay + 3],
   [SortBase EXCEPT !.status = "Done", !.completedAt = StartDay - 2],
   [SortBase EXCEPT !.status = "Done", !.completedAt = StartDay + 1, !.priority = "Low"]}

computeVelocityByPriorityCall ==
  /\ ~returned
  /\ result' = computeVelocityByPriority(arg)
  /\ arg' = arg
  /\ returned' = TRUE
  /\ UNCHANGED storeVars

VelocityInit ==
  /\ StoreInit
  /\ arg \in SeqsUpTo(VelocityPool, MaxArgLen)
  /\ result = <<>>
  /\ returned = FALSE

VelocityNext == computeVelocityByPriorityCall

VelocitySpec == VelocityInit /\ [][VelocityNext]_vars

\* ---- properties of the store ----

Range(s) == {s[i] : i \in 1..Len(s)}

\* the multiset of the elements of a sequence
BagOf(s) == [x \in Range(s) |-> Cardinality({i \in 1..Len(s) : s[i] = x})]

RemoveAt(s, k) == SubSeq(s, 1, k - 1) \o SubSeq(s, k + 1, Len(s))

\* C1: every task of the collection has timeTaken > 0, whatever sequence of
\* add, update (the patch may carry id), delete, undoDelete,
\* dismissLastDeleted and ingestion produced it.
C1_TimeTakenPositive ==
  \A i \in 1..Len(tasks) : tasks[i].timeTaken > 0

\* C2: deleteTask(id) for an id of the collection removes one task, the one
\* it puts into lastDeleted as it was, and every other task stays, unchanged
\* and in the same order.
C2_DeleteBuffersWhatItRemoves ==
  [][\A id \in ArgIds :
       (id \in IdsOf(tasks) /\ deleteTask(id))
         => \E k \in 1..Len(tasks) :
              /\ tasks[k].id = id
              /\ lastDeleted' = Some(tasks[k])
              /\ tasks' = RemoveAt(tasks, k)]_vars

\* C3: deleteTask(id) for an id that no task has changes neither the
\* collection nor the lastDeleted buffer.
C3_DeleteMissingIsNoop ==
  [][\A id \in ArgIds :
       (id \notin IdsOf(tasks) /\ deleteTask(id))
         => (tasks' = tasks /\ lastDeleted' = lastDeleted)]_vars

\* C4: deleteTask(id) of a task of the collection followed at once by
\* undoDelete() gives back the multiset of tasks the collection had before
\* the delete, the deleted task at the end, and lastDeleted = null.
C4_DeleteUndoRoundTrip ==
  [][(lastCall = "deleteTask" /\ undoDelete)
       => /\ BagOf(tasks') = BagOf(beforeDelete)
          /\ lastDeleted' = null
          /\ Len(tasks') > 0
          /\ Some(tasks'[Len(tasks')]) = lastDeleted]_vars

Held == Range(tasks) \cup Range(lastDeleted)

C5_PresentIffEverDone ==
  \A t \in Held : t.viaAdd => (t.completedAt # undefined <=> t.everDone)

\* an update leaves viaAdd set on the tasks its patch did not give a
\* completedAt
C5_StampedOnceByUpdate ==
  lastCall' = "updateTask"
    => \A i \in 1..Len(tasks) :
         (tasks[i].viaAdd /\ tasks'[i].viaAdd)
           => /\ (tasks[i].completedAt = undefined /\ tasks[i].status # "Done"
                  /\ tasks'[i].status = "Done")
                   => tasks'[i].completedAt = now
              /\ tasks[i].completedAt # undefined
                   => tasks'[i].completedAt = tasks[i].completedAt

\* C5: for a task created by addTask and changed since only by patches
\* without completedAt, completedAt is present exactly when the status has
\* been Done at some point; the update that first makes it Done sets
\* completedAt to the current time, and no later update of the status clears
\* or changes it.
C5_CompletedAtFollowsDone ==
  []C5_PresentIffEverDone /\ [][C5_StampedOnceByUpdate]_vars

\* a task stamped by an update, after its creation, that has left Done since
C5_Witness ==
  /\ lastCall = "updateTask"
  /\ \E i \in 1..Len(tasks) :
       /\ tasks[i].viaAdd
       /\ tasks[i].status # "Done"
       /\ tasks[i].completedAt > tasks[i].createdAt

\* C6: no two tasks of the collection have the same id.
C6_UniqueIds ==
  \A i, j \in 1..Len(tasks) : i # j => tasks[i].id # tasks[j].id

\* C7: updateTask(id, patch) leaves the id and the createdAt of the matching
\* task as they were, whatever the patch carries.
C7_IdAndCreatedAtImmutable ==
  [][\A id \in ArgIds, patch \in Patches :
       updateTask(id, patch)
         => \A i \in 1..Len(tasks) :
              tasks[i].id = id
                => /\ tasks'[i].id = tasks[i].id
                   /\ tasks'[i].createdAt = tasks[i].createdAt]_vars

\* C8: updateTask(id, patch) for an id that no task has leaves every task
\* with its field values and its position, and lastDeleted, loading and
\* error as they were.
C8_UpdateMissingIsNoop ==
  [][lastCall' = "updateTask miss"
       => (tasks' = tasks /\ UNCHANGED <<lastDeleted, loading, error>>)]_vars

\* an update with a missing id has run on a collection and a buffer that
\* both hold a task
C8_Witness ==
  /\ lastCall = "updateTask miss"
  /\ Len(tasks) > 0
  /\ lastDeleted # null

\* C9: when load() fails while the hook is mounted, loading becomes false,
\* error holds the message and the collection holds the generated batch.
C9_FailedLoadFallsBack ==
  [][(\E message \in Failures : loadFail(message))
       => /\ ~loading'
          /\ error' # null
          /\ Len(tasks') > 0
          /\ tasks' = generateSalesTasks(SeedCount, now)]_vars

\* C10: in every state, derivedSorted is sortTasks of withDerived of the
\* tasks of the collection, and metrics is what the metric functions give on
\* the collection.
C10_ViewsFollowCollection ==
  /\ derivedSorted = sortTasks(MapSeq(withDerived, tasks))
  /\ Len(derivedSorted) = Len(tasks)
  /\ metrics = IF Len(tasks) = 0 THEN INITIAL_METRICS
               ELSE [totalRevenue |-> computeTotalRevenue(tasks),
                     totalTimeTaken |-> computeTotalTimeTaken(tasks),
                     timeEfficiencyPct |-> computeTimeEfficiency(tasks),
                     revenuePerHour |-> computeRevenuePerHour(tasks),
                     averageROI |-> computeAverageROI(tasks),
                     performanceGrade |->
                       computePerformanceGrade(computeAverageROI(tasks))]

\* a restored task is in the views, which rank the tasks in another order
\* than the collection holds them
C10_Witness ==
  /\ lastCall = "undoDelete"
  /\ Len(tasks) >= 2
  /\ derivedSorted # MapSeq(withDerived, tasks)
  /\ metrics # INITIAL_METRICS

\* ---- properties of the functions of logic.ts ----

NullsLast(s) ==
  \A i \in 1..Len(s) : \A j \in 1..Len(s) :
    (s[i].roi = null /\ s[j].roi # null) => j < i

C11_SortedOnReturn ==
  returned =>
    /\ Len(result) = Len(arg)
    /\ BagOf(result) = BagOf(arg)
    /\ sortTasks(result) = result
    /\ NullsLast(result)

\* C11: sortTasks returns a permutation of its input of equal length and
\* leaves the input array as it was; sorting the result again gives the
\* result; every task with a null roi comes after every task with a finite roi
C11_SortPermutesAndKeepsInput ==
  []C11_SortedOnReturn /\ [][arg' = arg]_vars

C11_Witness ==
  /\ returned
  /\ Len(arg) = 3
  /\ result # arg
  /\ arg[1].roi = null
  /\ arg[3].roi # null

DistinctIds(s) == \A i \in 1..Len(s) : \A j \in 1..Len(s) : s[i].id = s[j].id => i = j

\* the reorderings of an array
Reorderings(s) == {[i \in 1..Len(s) |-> s[f[i]]] : f \in Permutations(1..Len(s))}

\* a precedes b in the order of spec section 4.2: roi descending with null
\* lowest, then priorityWeight descending, then createdAt descending, then
\* title ascending, then id ascending
Precedes(a, b) ==
  \/ a.roi # null /\ (b.roi = null \/ a.roi[1] > b.roi[1])
  \/ /\ a.roi = b.roi
     /\ \/ a.priorityWeight > b.priorityWeight
        \/ /\ a.priorityWeight = b.priorityWeight
           /\ \/ a.createdAt > b.createdAt
              \/ /\ a.createdAt = b.createdAt
                 /\ \/ TitleRank(a.title) < TitleRank(b.title)
                    \/ /\ TitleRank(a.title) = TitleRank(b.title)
                       /\ a.id < b.id

\* C12: for tasks with pairwise distinct ids the output of sortTasks is the
\* same for every ordering of the input, and it is ordered by roi descending
\* (null lowest), priorityWeight descending, createdAt descending, title
\* ascending, id ascending
C12_SortIsDeterministicTotalOrder ==
  (returned /\ DistinctIds(arg)) =>
    /\ \A p \in Reorderings(arg) : sortTasks(p) = result
    /\ \A i \in 1..Len(result) : \A j \in 1..Len(result) :
         i < j => Precedes(result[i], result[j])

C12_Witness ==
  /\ returned
  /\ DistinctIds(arg)
  /\ Len(arg) = 3
  /\ result # arg
  /\ \E i \in 1..2 : [result[i] EXCEPT !.id = 0] = [result[i + 1] EXCEPT !.id = 0]

\* the Monday that begins the ISO week of day d
IsoWeekStart(d) == d - ((getUTCDay(d) + 6) % 7)

\* the completed tasks of the argument that were counted in the row
RowTasks(row) ==
  {t \in Range(Completed(arg)) : weekKey(t.completedAt) = row.week}

\* C13: computeThroughputByWeek returns one row per ISO week that holds a
\* completed task, the rows are in chronological order of their weeks, and
\* tasks without completedAt are counted in no row
C13_ThroughputRowsChronological ==
  returned =>
    /\ Len(result) =
         Cardinality({IsoWeekStart(t.completedAt) : t \in Range(Completed(arg))})
    /\ \A i \in 1..Len(result) : \A j \in 1..Len(result) :
         i < j => \A t \in RowTasks(result[i]) : \A u \in RowTasks(result[j]) :
                    IsoWeekStart(t.completedAt) < IsoWeekStart(u.completedAt)
    /\ SumSeq([i \in 1..Len(result) |-> result[i].count]) = Len(Completed(arg))

\* the least-squares line through the points (i, ys[i + 1]), i = 0 .. n - 1,
\* from the means: slope = sum (x - mx)(y - my) / sum (x - mx)^2 and
\* intercept = my - slope * mx
LeastSquares(ys) ==
  LET n == Len(ys)
      mx == Frac(n - 1, 2)
      my == Frac(SumSeq(ys), n)
      RECURSIVE Total(_, _)
      Total(F(_), i) == IF i = 0 THEN Whole(0) ELSE FracAdd(F(i), Total(F, i - 1))
      dx(i) == FracSub(Whole(i - 1), mx)
      dy(i) == FracSub(Whole(ys[i]), my)
      sxy == Total(LAMBDA i : FracMul(dx(i), dy(i)), n)
      sxx == Total(LAMBDA i : FracMul(dx(i), dx(i)), n)
      slope == FracDiv(sxy, sxx)
  IN [slope |-> slope, intercept |-> FracSub(my, FracMul(slope, mx))]

RevenuesOf(rows) == [i \in 1..Len(rows) |-> rows[i].revenue]

\* C14: computeForecast returns no entry for a series of fewer than 2 points;
\* otherwise it returns horizonWeeks entries, each one max(0, slope * idx +
\* intercept) of the least-squares line at idx = n .. n + horizonWeeks - 1,
\* none negative and none the outcome of a division by zero; the series
\* 100, 200, 300 with horizon 2 gives 400, 500
C14_ForecastFollowsLeastSquares ==
  returned =>
    LET ys == RevenuesOf(arg.weekly)
        n == Len(ys)
        h == horizonWeeksOf(arg)
    IN IF n < 2 THEN result = <<>>
       ELSE /\ Len(result) = h
            /\ \A i \in 1..Len(result) :
                 /\ result[i].revenue[2] > 0
                 /\ result[i].revenue[1] >= 0
                 /\ result[i].revenue =
                      MathMax0(FracAdd(FracMul(LeastSquares(ys).slope, Whole(n + i - 1)),
                                       LeastSquares(ys).intercept))
            /\ (ys = <<100, 200, 300>> /\ h = 2)
                 => RevenuesOf(result) = <<Whole(400), Whole(500)>>

C14_Witness ==
  /\ returned
  /\ RevenuesOf(arg.weekly) = <<100, 200, 300>>
  /\ Has(arg, "horizonWeeks")
  /\ arg.horizonWeeks = 2
  /\ RevenuesOf(result) = <<Whole(400), Whole(500)>>

\* m is the lower median of the values of s: fewer than half of them are
\* below m and at least half of them are at most m
IsLowerMedian(m, s) ==
  /\ \E i \in 1..Len(s) : s[i] = m
  /\ 2 * Cardinality({i \in 1..Len(s) : s[i] < m}) < Len(s)
  /\ 2 * Cardinality({i \in 1..Len(s) : s[i] <= m}) >= Len(s)

\* C15: for each priority, medianDays is the lower median of the
\* daysBetween(createdAt, completedAt) of the completed tasks of that
\* priority (for an even number of values the lower of the two middle ones);
\* a priority without completed tasks has avgDays 0 and medianDays 0
C15_MedianIsLowerMedian ==
  returned =>
    \A k \in Priorities :
      IF groupOf(arg, k) = <<>>
        THEN result[k].avgDays = Whole(0) /\ result[k].medianDays = 0
        ELSE IsLowerMedian(result[k].medianDays, groupOf(arg, k))

\* ---- further properties of the store ----

\* the step is a call of addTask
IsAddTask == calls' # calls /\ lastCall' = "addTask"

\* C16: addTask appends exactly one task at the end and changes nothing else:
\* the tasks already held keep their values and positions, lastDeleted,
\* loading and error are unchanged; the new task has createdAt equal to the
\* current time whatever createdAt the caller passed, and completedAt equal
\* to that createdAt when its status is Done and absent otherwise
C16_AddAppendsOneAndStamps ==
  [][IsAddTask =>
       /\ Len(tasks') = Len(tasks) + 1
       /\ SubSeq(tasks', 1, Len(tasks)) = tasks
       /\ UNCHANGED <<lastDeleted, loading, error>>
       /\ LET new == tasks'[Len(tasks')]
          IN /\ new.createdAt = now
             /\ new.completedAt = IF new.status = "Done" THEN new.createdAt ELSE undefined
             /\ \E task \in AddInputs :
                  /\ task.createdAt # now
                  /\ new.title = task.title /\ new.status = task.status]_vars

C16_Witness ==
  /\ lastCall = "addTask"
  /\ lastDeleted # null
  /\ Len(tasks) > 0
  /\ tasks[Len(tasks)].status = "Done"
  /\ tasks[Len(tasks)].createdAt = now
  /\ tasks[Len(tasks)].completedAt = now
  /\ \A task \in AddInputs : task.createdAt # now

\* C17: when the hook is unmounted before the startup load settles, the
\* settling of the load, by success or by failure, changes none of tasks,
\* loading and error
C17_LoadAfterUnmountIsDiscarded ==
  [][(~isMounted /\ loadPc = "fetching" /\ loadPc' = "settled")
       => UNCHANGED <<tasks, loading, error>>]_vars

C17_Witness ==
  /\ lastCall = "load unmounted"
  /\ loadPc = "settled"
  /\ ~isMounted
  /\ loading
  /\ error = null
  /\ Len(tasks) > 0

\* the task at position i of the collection is held after the step, or the
\* step updated it in place
KeptOrUpdated(i) ==
  \/ \E j \in 1..Len(tasks') : tasks'[j] = tasks[i]
  \/ /\ lastCall' \in {"updateTask", "updateTask miss"}
     /\ Len(tasks') = Len(tasks)

\* the step is a deleteTask that removed the tasks of the id of tasks[i]
DeletedById(i) ==
  /\ calls' # calls
  /\ lastCall' = "deleteTask"
  /\ lastDeleted' # null
  /\ lastDeleted'[1].id = tasks[i].id

\* C18: a task put into the collection by addTask stays in it until a
\* deleteTask with its id: no other step removes it, in particular not the
\* settling of the startup load when addTask was called while loading
C18_AddedTaskStaysUntilDeleted ==
  [][\A i \in 1..Len(tasks) :
       tasks[i].viaAdd => (KeptOrUpdated(i) \/ DeletedById(i))]_vars

\* the same for every step but the successful settling of the load
C18_OnlyLoadDropsAddedTasks ==
  [][lastCall' # "load ok" =>
       \A i \in 1..Len(tasks) :
         tasks[i].viaAdd => (KeptOrUpdated(i) \/ DeletedById(i))]_vars

\* the number of elements of s equal to x
CountOf(s, x) == Cardinality({i \in 1..Len(s) : s[i] = x})

\* the step is one or two invocations of undoDelete
IsUndo == calls' # calls /\ lastCall' \in {"undoDelete", "undoDelete twice"}

\* C19: one delete is undone at most once: whatever undoDelete invocations
\* follow a deleteTask, among them two invocations of the callback of one
\* render, the deleted task is appended at most once, and lastDeleted is
\* cleared when it is
C19_UndoAppendsAtMostOnce ==
  [][IsUndo =>
       \A t \in Range(lastDeleted) :
         /\ CountOf(tasks', t) <= CountOf(tasks, t) + 1
         /\ CountOf(tasks', t) = CountOf(tasks, t) + 1 => lastDeleted' = null]_vars

\* C20: loading is true from the initial state until the startup load
\* settles; while the hook stays mounted the load settles, by success or by
\* failure, and loading is false from then on; no later step makes it true
C20_LoadingFallsOnceForGood ==
  /\ [](loadPc = "fetching" => loading)
  /\ [][(isMounted /\ loadPc = "fetching" /\ loadPc' = "settled") => ~loading']_vars
  /\ [][~loading => ~loading']_vars
  /\ <>(~loading \/ ~isMounted)

C20_Witness ==
  /\ loadPc = "settled"
  /\ isMounted
  /\ ~loading
  /\ error # null
  /\ lastCall = "addTask"

====
